---- MODULE Spec2Model ----
(***************************************************************************)
(* Model of audio/filter/af_volume.c (mpv): the private state of the       *)
(* volume filter, its control handler and its frame filter.                *)
(*                                                                         *)
(* Floating-point values (gains, volumes, float samples) are fixed-point   *)
(* integers in millionths: the float 1.0 is Scale, and the detach          *)
(* tolerance 0.00001 is 10 units.  Products and quotients are floored to   *)
(* a millionth.  Decibel values are whole decibels.  Every intermediate    *)
(* value is kept below 2^31, the range of the model checker's integers.    *)
(***************************************************************************)
EXTENDS Integers, Sequences, FiniteSets, TLC

\* ------------------------------------------------------------------ numbers

\* The float 1.0.
Scale == 1000 * 1000

\* A float that is +infinity (1.0 / 0.0).
Inf == (2^30 - 1) * 2 + 1

Abs(x) == IF x < 0 THEN -x ELSE x

\* a * b of two non-negative floats, floored to a millionth; computed in
\* parts of 1000 so that no intermediate product leaves the integer range.
MulFix(a, b) ==
    LET ah == a \div 1000
        al == a % 1000
        bh == b \div 1000
        bl == b % 1000
        t  == ah * bl + al * bh
    IN  ah * bh + (t \div 1000) + (((t % 1000) * 1000 + al * bl) \div Scale)

\* a * b of two floats of either sign (truncated toward zero).
MulSigned(a, b) ==
    IF (a < 0) = (b < 0) THEN MulFix(Abs(a), Abs(b))
    ELSE -MulFix(Abs(a), Abs(b))

\* 1.0 / peak (line 91); division by 0.0 gives +infinity.
Recip(peak) ==
    IF peak = 0 THEN Inf
    ELSE LET q == (1000 * Scale) \div peak
             r == (1000 * Scale) % peak
         IN  q * 1000 + ((r * 1000) \div peak)

MPMIN(a, b) == IF a > b THEN b ELSE a
MPMAX(a, b) == IF a > b THEN a ELSE b
MPCLAMP(a, mi, ma) == MPMIN(MPMAX(a, mi), ma)

\* pow(10.0, db / k) for k = 20 and the whole-decibel values the inputs can
\* produce, to a millionth.
Pow10Div(db, k) ==
    CASE db = -185 -> 0
      [] db = -6   -> 501187
      [] db = 0    -> Scale
      [] db = 6    -> 1995262
      [] db = 9    -> 2818383
      [] db = 15   -> 5623413
      [] db = 21   -> 11220185
      [] db = 51   -> 354813389
      [] db = 60   -> 1000 * Scale

\* pow(vol, 3).
Cube(v) == MulFix(MulFix(v, v), v)

\* Convert to gain value from dB. input <= -200dB will become 0 gain.
from_dB(in, k, mi, ma) ==
    IF in <= -200 THEN 0 ELSE Pow10Div(MPCLAMP(in, mi, ma), k)

\* ------------------------------------------------------------------ formats

\* Sample formats (audio/format.h).  A trailing P marks the planar variant.
PlanarFormats == {"S16P", "S32P", "FLOATP"}

af_fmt_is_planar(format) == format \in PlanarFormats

af_fmt_from_planar(format) ==
    CASE format = "S16P"   -> "S16"
      [] format = "S32P"   -> "S32"
      [] format = "FLOATP" -> "FLOAT"
      [] OTHER             -> format

af_fmt_to_planar(format) ==
    CASE format = "S16"   -> "S16P"
      [] format = "S32"   -> "S32P"
      [] format = "FLOAT" -> "FLOATP"
      [] OTHER            -> format

\* ------------------------------------------------------------------- inputs

\* Input formats offered to AF_CONTROL_REINIT.
InFormats == {"S16", "FLOAT", "S16P", "S32P", "FLOATP"}

\* af->replaygain_data: NULL, or gains in dB and peaks as floats.
NoReplayGain == [present |-> FALSE]

RG(tg, tp, ag, ap) ==
    [present |-> TRUE, track_gain |-> tg, track_peak |-> tp,
     album_gain |-> ag, album_peak |-> ap]

ReplayGainData ==
    { NoReplayGain,
      RG(-6, 500000, 0, Scale),
      RG(51, 2 * Scale, 6, 999995),
      RG(0, 0, -200, 999990),
      RG(6, 999990, -200, 2 * Scale) }

\* Volumes passed to AF_CONTROL_SET_VOLUME: 1.0 and 1.2.
Volumes == {Scale, 1200000}

\* Option values (af_info_volume.options).
PreampValues   == {0, 15}
FallbackValues == {0, -6}
VolumeDbValues == {-6, 0}

\* Control commands this filter does not handle.
OtherCommands == {"AF_CONTROL_RESET"}

\* -------------------------------------------------------------------- state

VARIABLES
    s,                \* struct priv
    af_data_format,   \* af->data->format, the negotiated format
    replaygain_data,  \* af->replaygain_data
    call              \* the most recent call into the filter and its outcome

vars == <<s, af_data_format, replaygain_data, call>>

\* The option fields of struct priv, as set by the option parser.
Options ==
    [rgain_track : BOOLEAN, rgain_album : BOOLEAN, rgain_preamp : PreampValues,
     rgain_clip : BOOLEAN, replaygain_fallback : FallbackValues,
     soft : BOOLEAN, fast : BOOLEAN, detach : BOOLEAN,
     cfg_volume : VolumeDbValues]

\* af_open on a zero-initialised struct priv holding the options o:
\* only level is set; vol and rgain stay 0.
af_open(o) ==
    [vol |-> 0, level |-> Scale, rgain |-> 0,
     rgain_track |-> o.rgain_track, rgain_album |-> o.rgain_album,
     rgain_preamp |-> o.rgain_preamp, rgain_clip |-> o.rgain_clip,
     replaygain_fallback |-> o.replaygain_fallback, soft |-> o.soft,
     fast |-> o.fast, detach |-> o.detach, cfg_volume |-> o.cfg_volume]

\* The option settings under which frames are run: track replaygain without
\* peak limiting, no preamp, no fallback, no detaching.
FilterOptions ==
    { o \in Options :
        /\ o.rgain_track /\ ~o.rgain_album /\ o.rgain_clip /\ ~o.detach
        /\ o.rgain_preamp = 0 /\ o.replaygain_fallback = 0 }

InitWith(options) ==
    /\ \E o \in options : s = af_open(o)
    /\ af_data_format = "UNSET"
    /\ replaygain_data = NoReplayGain
    /\ call = [op |-> "af_open", ret |-> "AF_OK"]

Init == InitWith(Options)

InitFilter == InitWith(FilterOptions)

\* ------------------------------------------------------------------ control

\* A variant of Negotiate that tests the input format without de-planarizing.
Negotiate_NoDeplanarize(in_format, fast) ==
    LET f == IF fast /\ in_format # "FLOAT" THEN "S16" ELSE "FLOAT"
    IN  IF af_fmt_is_planar(in_format) THEN af_fmt_to_planar(f) ELSE f

\* Lines 63-72: the format the filter asks for.
Negotiate(in_format, fast) ==
    LET f == IF fast /\ af_fmt_from_planar(in_format) # "FLOAT"
             THEN "S16" ELSE "FLOAT"
    IN  IF af_fmt_is_planar(in_format) THEN af_fmt_to_planar(f) ELSE f

\* A variant of SelectGainPeak that prefers the album values.
SelectGainPeak_AlbumFirst(p, rg) ==
    IF p.rgain_album
    THEN [gain |-> rg.album_gain, peak |-> rg.album_peak]
    ELSE [gain |-> rg.track_gain, peak |-> rg.track_peak]

\* Lines 77-83: which gain and peak of the metadata are used.
SelectGainPeak(p, rg) ==
    IF p.rgain_track
    THEN [gain |-> rg.track_gain, peak |-> rg.track_peak]
    ELSE [gain |-> rg.album_gain, peak |-> rg.album_peak]

\* Lines 85-93: the replaygain level from the selected gain and peak.
GainFromMetadata(p, gp) ==
    LET g == from_dB(gp.gain + p.rgain_preamp, 20, -200, 60)
    IN  IF ~p.rgain_clip THEN MPMIN(g, Recip(gp.peak)) ELSE g

\* Lines 73-97: s->rgain after AF_CONTROL_REINIT.
ComputeRgain(p, rg) ==
    IF (p.rgain_track \/ p.rgain_album) /\ rg.present
    THEN GainFromMetadata(p, SelectGainPeak(p, rg))
    ELSE IF p.replaygain_fallback # 0
    THEN from_dB(p.replaygain_fallback, 20, -200, 60)
    ELSE Scale

\* 0.00001, the tolerance of the detach test.
DetachTolerance == 10

\* A variant of ShouldDetach that tests the gain applied to the samples,
\* static gain included.
ShouldDetach_WithStaticGain(p) ==
    /\ p.detach
    /\ Abs(MulFix(MulFix(p.level, p.rgain),
                  from_dB(p.cfg_volume, 20, -200, 60)) - Scale) < DetachTolerance

\* Line 98: the detach test.
ShouldDetach(p) ==
    p.detach /\ Abs(MulFix(p.level, p.rgain) - Scale) < DetachTolerance

\* af_test_output(af, in): whether the input already has the format asked for.
af_test_output(format, in_format) ==
    IF format = in_format THEN "AF_OK" ELSE "AF_FALSE"

control_REINIT(in_format, rg) ==
    LET p == [s EXCEPT !.rgain = ComputeRgain(s, rg)]
        f == Negotiate(in_format, s.fast)
    IN  /\ s' = p
        /\ af_data_format' = f
        /\ replaygain_data' = rg
        /\ call' = [op |-> "REINIT", in_format |-> in_format,
                    ret |-> IF ShouldDetach(p) THEN "AF_DETACH"
                            ELSE af_test_output(f, in_format)]

control_SET_VOLUME(v) ==
    /\ s' = [s EXCEPT !.vol = v, !.level = Cube(v)]
    /\ call' = [op |-> "SET_VOLUME", arg |-> v, ret |-> "AF_OK"]
    /\ UNCHANGED <<af_data_format, replaygain_data>>

control_GET_VOLUME ==
    /\ call' = [op |-> "GET_VOLUME", arg |-> s.vol, ret |-> "AF_OK"]
    /\ UNCHANGED <<s, af_data_format, replaygain_data>>

control_other(cmd) ==
    /\ call' = [op |-> cmd, ret |-> "AF_UNKNOWN"]
    /\ UNCHANGED <<s, af_data_format, replaygain_data>>

\* ------------------------------------------------------------------- frames

\* An audio frame and the storage behind it.  heap.orig is the storage the
\* frame refers to when it arrives; shared says that storage has other owners
\* (the frame is not writeable).  ref names the storage the frame's plane
\* pointers refer to now: "orig", or "copy" once a writeable copy was made.
\* fails is the number of coming allocations that fail.  The other fields
\* record what filter_plane did: rc is the last result of af_make_writeable,
\* requests and allocs count its calls and its allocations, oom and failed
\* record the failed calls and the planes they were made for, level and path
\* the gain and the branch of filter_plane, trapped an overflow trap.
NewFrame(planes, shared, fails) ==
    [heap |-> [orig |-> planes, copy |-> <<>>], ref |-> "orig",
     shared |-> shared, fails |-> fails, rc |-> 0,
     oom |-> FALSE, failed |-> {}, allocs |-> 0, requests |-> 0,
     trapped |-> FALSE, level |-> 0, path |-> "none"]

\* af_make_writeable(af, data): nothing to do for a writeable frame; else
\* allocate new storage, copy the samples and point the frame at the copy.
\* rc < 0 when the allocation fails, and the frame is left as it was.
af_make_writeable(d) ==
    IF d.ref = "copy" \/ ~d.shared THEN [d EXCEPT !.rc = 0]
    ELSE IF d.fails > 0
    THEN [d EXCEPT !.rc = -1, !.fails = d.fails - 1, !.oom = TRUE]
    ELSE [d EXCEPT !.rc = 0, !.heap.copy = d.heap.orig, !.ref = "copy",
                   !.allocs = d.allocs + 1]

\* A variant of PlanePointer that reads the pointer before the call.
PlanePointer_Stale(before, after) == before.ref

\* Lines 126 and 137: a = data->planes[p], read after af_make_writeable.
\* before and after are the frame before and after that call.
PlanePointer(before, after) == after.ref

SHRT_MIN == -32768
SHRT_MAX == 32767

\* A variant of EffectiveGain that leaves out the static gain.
EffectiveGain_NoStaticGain(p) == MulFix(p.level, p.rgain)

\* Line 118: the gain applied to the samples.
EffectiveGain(p) ==
    MulFix(MulFix(p.level, p.rgain), from_dB(p.cfg_volume, 20, -200, 60))

\* Line 122: int vol = 256.0 * level (conversion truncates).
IntGain(level) == (level \div 15625) * 4 + (((level % 15625) * 4) \div 15625)

\* Line 128: a[i] * vol as a 32-bit int, in halves of 16 bits:
\* the product is hi * 2^16 + lo.
Product(a, vol) ==
    LET A == a * (vol \div 65536)
        B == a * (vol % 65536)
    IN  [hi |-> A + (B \div 65536), lo |-> B % 65536]

Overflows(a, vol) ==
    LET h == Product(a, vol).hi IN h < -32768 \/ h > 32767

\* Line 128: x = (a[i] * vol) >> 8, the product wrapped to 32 bits.
ShiftedProduct(a, vol) ==
    LET pr == Product(a, vol)
        hw == ((pr.hi + 32768) % 65536) - 32768
    IN  hw * 256 + (pr.lo \div 256)

\* Lines 127-130: the fixed-point loop over one plane.
ScaleS16(plane, vol) ==
    [i \in DOMAIN plane |->
        MPCLAMP(ShiftedProduct(plane[i], vol), SHRT_MIN, SHRT_MAX)]

\* af_softclip(x): odd, non-decreasing, x for small |x|, below 1.0 in size.
af_softclip(x) ==
    IF Abs(x) <= 500000 THEN x
    ELSE LET y == Scale - ((250 * Scale) \div (Abs(x) \div 1000))
         IN  IF x < 0 THEN -y ELSE y

\* Lines 138-141: the floating-point loop over one plane.
ScaleFloat(plane, vol, soft) ==
    [i \in DOMAIN plane |->
        LET x == MulSigned(plane[i], vol)
        IN  IF soft THEN af_softclip(x) ELSE MPCLAMP(x, -Scale, Scale)]

\* Whether the loop of lines 127-130 overflows the int product.
PlaneOverflows(plane, vol) ==
    \E i \in DOMAIN plane : Overflows(plane[i], vol)

\* Lines 124-130 and 135-141: make the frame writeable, then store the
\* scaled samples of plane n through the plane pointer.  A signed overflow
\* of a[i] * vol is undefined: the build either wraps (ub = "wrap") or
\* traps (ub = "trap").
WritePlane(d, n, fixed, vol, soft, ub) ==
    LET w   == af_make_writeable([d EXCEPT !.requests = d.requests + 1])
        a   == PlanePointer(d, w)
        old == w.heap[a][n]
    IN  IF w.rc < 0 THEN [w EXCEPT !.failed = w.failed \cup {n}]
        ELSE IF fixed /\ PlaneOverflows(old, vol) /\ ub = "trap"
        THEN [w EXCEPT !.trapped = TRUE]
        ELSE [w EXCEPT !.heap[a][n] =
                 IF fixed THEN ScaleS16(old, vol) ELSE ScaleFloat(old, vol, soft)]

\* Line 123: if (vol != 256).
NeedsScalingS16(vol) == vol # 256

\* A variant of NeedsScalingFloat that scales at unity gain too.
NeedsScalingFloat_Always(vol) == TRUE

\* Line 134: if (vol != 1.0).
NeedsScalingFloat(vol) == vol # Scale

\* Line 121 and line 132: the branch taken for the negotiated format.
PathOf(format) ==
    IF af_fmt_from_planar(format) = "S16" THEN "fixed"
    ELSE IF af_fmt_from_planar(format) = "FLOAT" THEN "float"
    ELSE "none"

\* Lines 114-144.
filter_plane(p, format, d, n, ub) ==
    LET level == EffectiveGain(p)
        path  == PathOf(format)
        e     == [d EXCEPT !.level = level, !.path = path]
    IN  IF path = "fixed"
        THEN LET vol == IntGain(level)
             IN  IF NeedsScalingS16(vol)
                 THEN WritePlane(e, n, TRUE, vol, p.soft, ub) ELSE e
        ELSE IF path = "float"
        THEN LET vol == level
             IN  IF NeedsScalingFloat(vol)
                 THEN WritePlane(e, n, FALSE, vol, p.soft, ub) ELSE e
        ELSE e

\* Lines 149-150: the loop over the planes, from plane n on.
RECURSIVE filter_planes(_, _, _, _, _)
filter_planes(p, format, d, n, ub) ==
    IF n > Len(d.heap.orig) \/ d.trapped THEN d
    ELSE filter_planes(p, format, filter_plane(p, format, d, n, ub), n + 1, ub)

\* Lines 146-154: what filter returns for a frame processed to d.
\* A trap ends the process; otherwise the result is 0.
FilterResult(d) == IF d.trapped THEN "SIGABRT" ELSE "0"

\* Line 151: whether the frame is handed to af_add_output_frame.
Forwarded(d) == ~d.trapped

\* Lines 146-154, data != NULL.
filter(planes, shared, fails, ub) ==
    \E d \in { filter_planes(s, af_data_format,
                              NewFrame(planes, shared, fails), 1, ub) } :
        /\ call' = [op |-> "filter", ret |-> FilterResult(d),
                    data |-> planes, shared |-> shared,
                    orig |-> d.heap.orig, out |-> d.heap[d.ref],
                    forwarded |-> Forwarded(d), oom |-> d.oom,
                    failed |-> d.failed, requests |-> d.requests,
                    allocs |-> d.allocs, gain |-> d.level, path |-> d.path]
        /\ UNCHANGED <<s, af_data_format, replaygain_data>>

\* Lines 146-154, data == NULL.
filter_NULL ==
    /\ call' = [op |-> "filter_NULL", ret |-> "0"]
    /\ UNCHANGED <<s, af_data_format, replaygain_data>>

\* ------------------------------------------------------------- input frames

MaxPlanes == 2

\* The sample sequences a plane of an input frame can hold; all planes of a
\* frame have the same number of samples.
S16Planes   == { <<10000, 30000>>, <<-1, -30000>> }
FloatPlanes == { <<400000, 900000>>, <<-Scale, -100000>> }

\* The frames the host passes: their samples have the negotiated format.
FramesFor(format) ==
    LET planes == IF af_fmt_from_planar(format) = "S16"
                  THEN S16Planes ELSE FloatPlanes
    IN  UNION { [1..c -> planes] : c \in 1..MaxPlanes }

\* The outcomes of undefined behaviour open to a frame: a choice exists only
\* when a[i] * vol overflows for some sample of the frame.
UBChoices(planes) ==
    IF /\ af_fmt_from_planar(af_data_format) = "S16"
       /\ \E n \in DOMAIN planes :
              PlaneOverflows(planes[n], IntGain(EffectiveGain(s)))
    THEN {"wrap", "trap"} ELSE {"wrap"}

\* ------------------------------------------------------------ specification

NextControl ==
    \/ \E f \in InFormats, rg \in ReplayGainData : control_REINIT(f, rg)
    \/ \E v \in Volumes : control_SET_VOLUME(v)
    \/ control_GET_VOLUME
    \/ \E cmd \in OtherCommands : control_other(cmd)

NextFilter ==
    \/ \E planes \in FramesFor(af_data_format), shared \in BOOLEAN :
          \E fails \in 0..(IF shared THEN Len(planes) ELSE 0),
             ub \in UBChoices(planes) :
              filter(planes, shared, fails, ub)
    \/ filter_NULL

Next == NextControl \/ NextFilter

\* Every option setting; control messages only.
SpecControl == Init /\ [][NextControl]_vars

\* Control messages and frames, for the options in FilterOptions.
Spec == InitFilter /\ [][Next]_vars

\* ------------------------------------------------------------------- claims

IsFilterCall == call.op = "filter"
IsReinit     == call.op = "REINIT"

\* The metadata the latest AF_CONTROL_REINIT used, if it used any.
UsesMetadata == (s.rgain_track \/ s.rgain_album) /\ replaygain_data.present

\* C1: when a plane has to be modified and no writeable copy of the frame
\* can be obtained, filter reports an out-of-memory failure and does not
\* forward the frame.
C1_OutOfMemoryReported ==
    (IsFilterCall /\ call.oom) =>
        (call.ret = "OutOfMemory" /\ ~call.forwarded)

\* C2: after a REINIT that uses replaygain metadata, replaygain-clip = yes
\* limits rgain to 1 / peak, and replaygain-clip = no leaves rgain at
\* from_dB(gain + preamp) with no peak limiting.
C2_ClipOptionEnablesLimiting ==
    (IsReinit /\ UsesMetadata) =>
        LET gain == IF s.rgain_track THEN replaygain_data.track_gain
                    ELSE replaygain_data.album_gain
            peak == IF s.rgain_track THEN replaygain_data.track_peak
                    ELSE replaygain_data.album_peak
        IN  /\ s.rgain_clip => s.rgain <= Recip(peak)
            /\ ~s.rgain_clip =>
                  s.rgain = from_dB(gain + s.rgain_preamp, 20, -200, 60)

\* C3: REINIT returns AF_DETACH exactly when detach is set and
\* |level * rgain - 1.0| < 0.00001, for the rgain that REINIT computed; the
\* static gain cfg_volume plays no part, so level = rgain = 1.0 detaches
\* whatever cfg_volume is.
C3_DetachDecision ==
    IsReinit =>
        /\ (call.ret = "AF_DETACH") <=>
              (s.detach /\ MulFix(s.level, s.rgain) > Scale - 10
                        /\ MulFix(s.level, s.rgain) < Scale + 10)
        /\ (s.detach /\ s.level = Scale /\ s.rgain = Scale) =>
              call.ret = "AF_DETACH"

\* C3 witness: a REINIT that detaches although the gain applied to frames
\* is not unity.
C3_Witness ==
    /\ IsReinit /\ call.ret = "AF_DETACH"
    /\ s.level = Scale /\ s.rgain = Scale
    /\ s.cfg_volume = -6 /\ EffectiveGain(s) # Scale

\* C4: level and vol change only in SET_VOLUME, rgain only in REINIT;
\* filter, GET_VOLUME and unhandled commands change nothing of struct priv,
\* unhandled commands return AF_UNKNOWN, and the gain filter applies is
\* level * rgain * from_dB(cfg_volume).
C4_OnlyControlEventsChangeState ==
    [][ /\ (s'.level # s.level \/ s'.vol # s.vol) => call'.op = "SET_VOLUME"
        /\ s'.rgain # s.rgain => call'.op = "REINIT"
        /\ call'.op \in {"filter", "filter_NULL", "GET_VOLUME"} \cup OtherCommands
              => s' = s
        /\ call'.op \in OtherCommands => call'.ret = "AF_UNKNOWN"
        /\ call'.op = "filter" =>
              call'.gain = MulFix(MulFix(s.level, s.rgain),
                                  from_dB(s.cfg_volume, 20, -200, 60)) ]_vars

\* C4 witness: a frame filtered with a volume set by SET_VOLUME, a replaygain
\* set by REINIT and a static gain, none of them unity.
C4_Witness ==
    /\ IsFilterCall /\ s.vol = 1200000 /\ s.level = 1728000
    /\ s.rgain = 501187 /\ s.cfg_volume = -6
    /\ call.gain = MulFix(MulFix(1728000, 501187), 501187)
    /\ call.out # call.data

\* C5: with an effective gain of exactly 1.0 filter leaves every sample of
\* every plane as it was, on either path, and never asks for a writeable
\* copy, shared storage or not.
C5_UnityGainIsNoOp ==
    (IsFilterCall /\ call.gain = Scale) =>
        /\ call.out = call.data /\ call.orig = call.data
        /\ call.requests = 0 /\ call.allocs = 0

\* C5 witness: a frame on shared storage filtered at unity gain on the
\* floating path.
C5_Witness ==
    /\ IsFilterCall /\ call.gain = Scale /\ call.shared
    /\ call.path = "float" /\ Len(call.data) = MaxPlanes

\* C6: after REINIT rgain is a function of the metadata of that REINIT and
\* the options: from the track gain and peak when metadata is present and
\* track mode is on, from the album gain and peak when only album mode is
\* on, from replaygain-fallback when that is non-zero and no metadata is
\* used, and 1.0 otherwise.
C6_RgainFromMetadataOrFallback ==
    IsReinit =>
        s.rgain =
            IF UsesMetadata
            THEN IF s.rgain_track
                 THEN GainFromMetadata(s, [gain |-> replaygain_data.track_gain,
                                           peak |-> replaygain_data.track_peak])
                 ELSE GainFromMetadata(s, [gain |-> replaygain_data.album_gain,
                                           peak |-> replaygain_data.album_peak])
            ELSE IF s.replaygain_fallback # 0
            THEN from_dB(s.replaygain_fallback, 20, -200, 60)
            ELSE Scale

\* C6 witness: track and album mode both on, metadata present, and the
\* track values decide a gain the album values would not give.
C6_Witness ==
    /\ IsReinit /\ s.rgain_track /\ s.rgain_album /\ replaygain_data.present
    /\ s.rgain # GainFromMetadata(s, [gain |-> replaygain_data.album_gain,
                                      peak |-> replaygain_data.album_peak])

\* C7: in every state from af_open on level = vol^3, and GET_VOLUME returns
\* that vol.
C7_LevelIsVolumeCubed ==
    /\ s.level = Cube(s.vol)
    /\ call.op = "GET_VOLUME" => call.arg = s.vol

\* C8: after REINIT the format is 16-bit fixed point exactly when s16 is set
\* and the de-planarized input format is not float, float otherwise, and
\* planar exactly when the input is planar; a frame filtered after a REINIT
\* takes the path of that format.
C8_NegotiatedFormat ==
    /\ IsReinit =>
          /\ af_fmt_from_planar(af_data_format) =
                IF s.fast /\ call.in_format \notin {"FLOAT", "FLOATP"}
                THEN "S16" ELSE "FLOAT"
          /\ (af_data_format \in {"S16P", "FLOATP"}) <=>
                (call.in_format \in {"S16P", "S32P", "FLOATP"})
    /\ (IsFilterCall /\ af_data_format # "UNSET") =>
          call.path = IF af_data_format \in {"S16", "S16P"}
                      THEN "fixed" ELSE "float"

\* C8 witness: a frame filtered on the fixed-point path after a REINIT with
\* planar input.
C8_Witness ==
    IsFilterCall /\ af_data_format = "S16P" /\ call.path = "fixed"

\* round(256 * gain).
Round256(gain) == (gain \div 31250) * 8 + (((gain % 31250) * 8 + 15625) \div 31250)

\* (sample * intGain) >> 8 without any overflow, clamped to 16 bits.
ExactScaled(sample, intGain) ==
    LET pr == Product(sample, intGain)
    IN  MPCLAMP(pr.hi * 256 + (pr.lo \div 256), -32768, 32767)

\* C9: on the fixed-point path, with intGain = round(256 * gain), a frame
\* is untouched when intGain = 256 and every stored sample is otherwise
\* clamp((sample * intGain) >> 8, -32768, 32767).
C9_FixedPointScaling ==
    (IsFilterCall /\ call.path = "fixed" /\ ~call.oom) =>
        /\ call.ret = "0"
        /\ \A n \in DOMAIN call.data : \A i \in DOMAIN call.data[n] :
              call.out[n][i] =
                  IF Round256(call.gain) = 256 THEN call.data[n][i]
                  ELSE ExactScaled(call.data[n][i], Round256(call.gain))

\* C10: filter never writes into storage it does not own exclusively: the
\* original storage of a shared frame keeps its samples, and a plane whose
\* make-writeable step failed keeps its samples too.
C10_NoWriteToSharedStorage ==
    IsFilterCall =>
        /\ call.shared => call.orig = call.data
        /\ \A n \in call.failed :
              call.out[n] = call.data[n] /\ call.orig[n] = call.data[n]

\* C10 witness: a shared frame of which one plane could not be made
\* writeable and a later plane was scaled in a copy.
C10_Witness ==
    /\ IsFilterCall /\ call.shared /\ call.failed # {}
    /\ call.allocs = 1 /\ call.out # call.data

====
